---- MODULE Spec2Model ----
(***************************************************************************)
(* Model of the review/critique agent of repo_agent:                       *)
(*   claude.py  ClaudeAgent.call and its helpers (one CLI invocation that  *)
(*              streams into the per-task log and extracts the result),    *)
(*   graph.py   generator_node, validator_node, should_continue and        *)
(*              run_review_critique (the generate/validate loop).          *)
(* Texts are TLA+ strings; strip, upper, startswith, split and the JSON    *)
(* decoding of a log line are computed character by character as Python    *)
(* computes them.  A log file is the sequence of its lines.                *)
(***************************************************************************)
EXTENDS Integers, Sequences, FiniteSets, TLC

VARIABLES
    state,      \* the AgentState of the run (graph.py:21-30)
    pc,         \* position of the run in the graph / in run_review_critique
    sink,       \* content of {task_id}_claude.log, a sequence of entries
    returned,   \* what run_review_critique returned (NoValue before it returns)
    gens,       \* history: number of generator_node invocations of call_claude
    vals,       \* history: number of validator_node invocations of call_claude
    lastGen,    \* history: text returned by the latest generator invocation
    lastVal,    \* history: text returned by the latest validator invocation
    lastPrompt, \* history: the prompt of the latest generator invocation
    probe,      \* the input of a pure-function specification (NoProbe in a run)
    extracted,  \* the texts _parse_result returned, one per application
    inv,        \* history: the latest invocation of call, its request and outcome
    res,        \* history: what the latest invocation returned or raised
    tasks,      \* concurrent runs: task id -> state, pc, returned, outcomes consumed
    files       \* concurrent runs: the logs directory, file name -> content

vars == <<state, pc, sink, returned, gens, vals, lastGen, lastVal, lastPrompt,
          probe, extracted, inv, res, tasks, files>>

\* ------------------------------------------------------------------ bounds

\* max_iterations of a run ranges over 1..MaxIterations.
MaxIterations == 3

\* Invocations made on one task's log in the invocation specification.
MaxCalls == 2

\* Lines of a log content handed to result extraction.
MaxLines == 3

\* ------------------------------------------------------- program constants

DEFAULT_TIMEOUT == 300

DEFAULT_CLAUDE_PATH == "/opt/homebrew/bin/claude"

\* max_iterations as run_review_critique seeds it.
SEED_MAX_ITERATIONS == 3

NoValue == "<none>"

NoProbe == [pad |-> "", word |-> "", tail |-> "", lead |-> ""]

\* ----------------------------------------------------------- evaluation

\* F(v), with v computed once however often F uses it.
Bind(v, F(_)) == CHOOSE t \in {F(b) : b \in {v}} : TRUE

\* ---------------------------------------------------------- Python strings

Whitespace == {" ", "\n", "\t"}

Lowercase == "abcdefghijklmnopqrstuvwxyz"

Uppercase == "ABCDEFGHIJKLMNOPQRSTUVWXYZ"

\* The upper-case form of each lower-case letter.
UpperOf ==
    [c \in {SubSeq(Lowercase, i, i) : i \in 1..Len(Lowercase)} |->
        LET i == CHOOSE j \in 1..Len(Lowercase) : SubSeq(Lowercase, j, j) = c
        IN SubSeq(Uppercase, i, i)]

UpperChar(c) == IF c \in DOMAIN UpperOf THEN UpperOf[c] ELSE c

\* str.upper, str.lstrip and str.rstrip, one character at a time.  They are
\* recursive functions so that the argument is evaluated once per level;
\* upper maps the two halves of a text of two characters or more.
upper_of[s \in STRING] ==
    IF Len(s) <= 1 THEN UpperChar(s)
    ELSE upper_of[SubSeq(s, 1, Len(s) \div 2)]
         \o upper_of[SubSeq(s, Len(s) \div 2 + 1, Len(s))]

upper(s) == upper_of[s]

lstrip_of[s \in STRING] ==
    IF s # "" /\ Head(s) \in Whitespace THEN lstrip_of[Tail(s)] ELSE s

lstrip(s) == lstrip_of[s]

rstrip_of[s \in STRING] ==
    IF s # "" /\ SubSeq(s, Len(s), Len(s)) \in Whitespace
    THEN rstrip_of[SubSeq(s, 1, Len(s) - 1)]
    ELSE s

rstrip(s) == rstrip_of[s]

strip(s) == rstrip(lstrip(s))

startswith(s, prefix) ==
    Len(s) >= Len(prefix) /\ SubSeq(s, 1, Len(prefix)) = prefix

\* The pieces of s between the cut points at (the positions of the
\* separators, 0 and Len(s) + 1), from left to right.
pieces[s \in STRING, at \in SUBSET Int] ==
    [k \in 1..(Cardinality(at) - 1) |->
        LET lo == CHOOSE i \in at : Cardinality({j \in at : j < i}) = k - 1
            hi == CHOOSE i \in at : Cardinality({j \in at : j < i}) = k
        IN SubSeq(s, lo + 1, hi - 1)]

\* str.split(sep) for a one-character separator.
split(s, sep) ==
    pieces[s, {0, Len(s) + 1} \cup {i \in 1..Len(s) : SubSeq(s, i, i) = sep}]

\* The lines that prefix followed by the lines p make: the first line of p
\* continues the line prefix began.
prefixed[prefix \in STRING, p \in Seq(STRING)] ==
    IF p = <<>> THEN <<prefix>> ELSE <<prefix \o Head(p)>> \o Tail(p)

\* The lines an f-string "{prefix}{text}" makes once written to a file and
\* read back, text holding any number of line breaks.
Embed(prefix, text) == prefixed[prefix, split(text, "\n")]

\* -------------------------------------------------------------- json.loads

\* json.loads of the pieces a line falls into at its double quotes.  The
\* lines of the model hold no backslash and no white space outside strings,
\* and their values are strings, so an object reads "{", key, ":", value,
\* ",", key, ":", value, ..., "}"; every other line starting with an open
\* brace raises JSONDecodeError (ok is FALSE).
json_object[p \in Seq(STRING)] ==
    IF /\ Len(p) >= 5
       /\ Len(p) % 4 = 1
       /\ p[1] = "{"
       /\ p[Len(p)] = "}"
       /\ \A i \in 2..(Len(p) - 1) :
             /\ (i % 4 = 3 => p[i] = ":")
             /\ (i % 4 = 1 => p[i] = ",")
    THEN [ok |-> TRUE,
          members |-> [j \in 1..(Len(p) \div 4) |->
                          [key |-> p[4 * j - 2], value |-> p[4 * j]]]]
    ELSE [ok |-> FALSE, members |-> <<>>]

json_loads(line) ==
    IF line = "{}" THEN [ok |-> TRUE, members |-> <<>>]
    ELSE json_object[split(line, "\"")]

\* The members of a decoded object, and what json.loads makes of a line.
Members == Seq([key : STRING, value : STRING])

Decoded == [ok : BOOLEAN, members : Members]

\* dict.get(key, default) on a decoded object; a repeated key keeps its last
\* value.
dict_get[members \in Members, key \in STRING, default \in STRING] ==
    IF \A j \in 1..Len(members) : members[j].key # key THEN default
    ELSE members[CHOOSE j \in 1..Len(members) :
                    /\ members[j].key = key
                    /\ \A k \in (j + 1)..Len(members) : members[k].key # key].value

\* ------------------------------------------- verdict parsing (graph.py)

\* Mutant: the response is not trimmed before the leading token is matched.
ParseStatus_nostrip(validation) ==
    Bind(upper(validation), LAMBDA validation_upper :
    IF startswith(validation_upper, "VALID")
    THEN [status |-> "VALID", feedback |-> ""]
    ELSE IF startswith(validation_upper, "INVALID")
    THEN [status |-> "INVALID", feedback |-> validation]
    ELSE IF startswith(validation_upper, "PARTIAL")
    THEN [status |-> "PARTIAL", feedback |-> validation]
    ELSE [status |-> "VALID", feedback |-> ""])

\* Mutant: an unrecognized response is treated as PARTIAL instead of VALID.
ParseStatus_strict(validation) ==
    Bind(upper(strip(validation)), LAMBDA validation_upper :
    IF startswith(validation_upper, "VALID")
    THEN [status |-> "VALID", feedback |-> ""]
    ELSE IF startswith(validation_upper, "INVALID")
    THEN [status |-> "INVALID", feedback |-> validation]
    ELSE IF startswith(validation_upper, "PARTIAL")
    THEN [status |-> "PARTIAL", feedback |-> validation]
    ELSE [status |-> "PARTIAL", feedback |-> validation])

\* validator_node, "Parse validation status": the status and the feedback
\* computed from the text the validator invocation returned.
ParseStatus(validation) ==
    Bind(upper(strip(validation)), LAMBDA validation_upper :
    IF startswith(validation_upper, "VALID")
    THEN [status |-> "VALID", feedback |-> ""]
    ELSE IF startswith(validation_upper, "INVALID")
    THEN [status |-> "INVALID", feedback |-> validation]
    ELSE IF startswith(validation_upper, "PARTIAL")
    THEN [status |-> "PARTIAL", feedback |-> validation]
    ELSE [status |-> "VALID", feedback |-> ""])

\* --------------------------------------------- the per-task log (claude.py)

\* One line of {task_id}_claude.log.  line is the text of the line, the only
\* part the program reads; src records who wrote it (header, child, footer,
\* trailer) and is used by the properties alone.
Entry(src, line) == [src |-> src, line |-> line]

\* The entries of the lines one writer appends.
written[src \in STRING, lines \in Seq(STRING)] ==
    [i \in 1..Len(lines) |-> Entry(src, lines[i])]

Written(src, lines) == written[src, lines]

\* The contents a log can have.
Logs == Seq([src : STRING, line : STRING])

\* A stream-json line of the child: an event with its "type" and, for text
\* other than NoValue, its "result".
Event(type, text) ==
    IF text = NoValue THEN "{\"type\":\"" \o type \o "\"}"
    ELSE "{\"type\":\"" \o type \o "\",\"result\":\"" \o text \o "\"}"

\* Texts the tool answers with in a workflow run.
WfTexts == {"valid", "INVALID: x", " Partial: y", "Answer"}

\* What the child process writes to its standard output in a workflow run:
\* nothing, or its final "result" event.
ChildOutputs == {<<>>} \cup {<<Event("result", t)>> : t \in WfTexts}

Stderrs == {"", "boom\n"}

\* The '=' * 80 rule of the header and the trailer.
Separator ==
    "================================================================================"

\* What datetime.now() and time.time() - start_time format to.
Timestamp == "2025-01-01 00:00:00"

Elapsed == "1.00"

\* _write_header: the header block appended before the child is spawned.  A
\* prompt is held as the lines of its text.
_write_header(snk, node, repo_path, prompt) ==
    snk \o Written("header",
                   <<"", Separator, "[" \o Timestamp \o "] " \o upper(node)>>
                   \o Embed("Repo: ", repo_path)
                   \o prefixed["Prompt: ", prompt]
                   \o <<Separator>>)

\* Mutant: the footer is written with the file opened for writing, not for
\* appending.
_write_footer_truncating(snk, duration, exit_code, timeout) ==
    Written("footer",
            <<"", IF timeout
                  THEN "[TIMEOUT after " \o duration \o "s]"
                  ELSE "[Completed in " \o duration \o "s, exit: "
                       \o ToString(exit_code) \o "]">>)

\* _write_footer: the completion or the TIMEOUT footer.
_write_footer(snk, duration, exit_code, timeout) ==
    snk \o Written("footer",
                   <<"", IF timeout
                         THEN "[TIMEOUT after " \o duration \o "s]"
                         ELSE "[Completed in " \o duration \o "s, exit: "
                              \o ToString(exit_code) \o "]">>)

\* The lines of the response as the trailer holds them.
response_lines[response \in STRING] ==
    split(IF response # "" THEN response ELSE "(empty)", "\n")

\* _write_response: the PARSED RESPONSE trailer.
_write_response(snk, response) ==
    snk \o Written("trailer",
                   <<"", Separator, "PARSED RESPONSE:", Separator>>
                   \o response_lines[response]
                   \o <<Separator>>)

\* What the scan of _parse_result makes of one stripped line: hit with the
\* "result" of an event of type "result", no hit for a blank line, a line not
\* starting with an open brace, a line json.loads rejects and an event of
\* another type.
event_result[event \in Decoded] ==
    IF event.ok /\ dict_get[event.members, "type", NoValue] = "result"
    THEN [hit |-> TRUE, text |-> dict_get[event.members, "result", ""]]
    ELSE [hit |-> FALSE, text |-> ""]

line_result[line \in STRING] ==
    IF line = "" \/ ~startswith(line, "{") THEN [hit |-> FALSE, text |-> ""]
    ELSE event_result[json_loads(line)]

\* Mutant: the scan runs from the first line towards the last.
scan_forward[snk \in Logs] ==
    LET found(k) == line_result[strip(snk[k].line)]
    IN IF \E k \in 1..Len(snk) : found(k).hit
       THEN found(CHOOSE k \in 1..Len(snk) :
                      found(k).hit /\ \A j \in 1..(k - 1) : ~found(j).hit).text
       ELSE ""

_parse_result_forward(snk) == scan_forward[snk]

\* _parse_result: scan the whole log from its last line towards its first and
\* return the "result" of the first event of type "result" met; found(k) is
\* what the scan makes of the k-th line counted from the end (k = 0 is the
\* last line), and the scan stops at the least k with a hit.
scan_reversed[snk \in Logs] ==
    LET found(k) == line_result[strip(snk[Len(snk) - k].line)]
    IN IF \E k \in 0..(Len(snk) - 1) : found(k).hit
       THEN found(CHOOSE k \in 0..(Len(snk) - 1) :
                      found(k).hit /\ \A j \in 0..(k - 1) : ~found(j).hit).text
       ELSE ""

_parse_result(snk) == scan_reversed[snk]

\* What can happen to one invocation, by the place where it leaves the try
\* block of call:
\*   exit                  the child exits with exit_code having written out
\*                         and stderr, and every later step succeeds
\*   parse_fault           as exit, but the log cannot be read back
\*   footer_fault          as exit, but writing the completion footer fails
\*   trailer_fault         as exit, but writing the trailer fails
\*   log_fault             as exit, but logger.log fails after the trailer
\*   timeout               communicate() times out after the child wrote out
\*   timeout_footer_fault  as timeout, but writing the TIMEOUT footer fails
\*   notfound              Popen raises FileNotFoundError: no binary at the path
\*   cwd_missing           Popen raises FileNotFoundError: repo_path is missing
\*   spawn_fault           Popen raises another OSError
\*   header_enoent         _write_header raises FileNotFoundError: no logs directory
\*   header_fault          _write_header raises another OSError
Outcome(kind, out, exit_code, stderr) ==
    [kind |-> kind, out |-> out, exit_code |-> exit_code, stderr |-> stderr]

\* The outcomes a workflow run is exposed to: a clean exit with or without a
\* result event, a failed exit without one, a timeout after a progress event
\* (with the footer written, or not), and two spawn faults.
Outcomes ==
    {Outcome("exit", out, 0, "") : out \in ChildOutputs}
    \cup {Outcome("exit", <<>>, 1, se) : se \in Stderrs}
    \cup {Outcome(k, <<Event("tool_use", NoValue)>>, -1, "") :
            k \in {"timeout", "timeout_footer_fault"}}
    \cup {Outcome(k, <<>>, -1, "") : k \in {"notfound", "spawn_fault"}}

\* str(e) of an OSError other than FileNotFoundError.
FaultMessage == "[Errno 13] Permission denied"

\* The configuration ClaudeAgent.__init__ resolves (lines 43-45).
ClaudeAgent(claude_path, timeout) == [claude_path |-> claude_path, timeout |-> timeout]

claude_agent == ClaudeAgent(DEFAULT_CLAUDE_PATH, DEFAULT_TIMEOUT)

\* Mutant: the configured timeout is reported whatever the call asked for.
TimeoutInForce_config(self, timeout) == self.timeout

\* "timeout = timeout or self.timeout": the timeout in force for one call
\* (0 stands for an argument left at None).
TimeoutInForce(self, timeout) == IF timeout # 0 THEN timeout ELSE self.timeout

\* What call hands back: the triple it returns (or, when raised, the exception
\* that escapes it), the log it leaves, and what became of the child: none
\* spawned, reaped (communicate() returned after its exit), or killed
\* (process.kill() was sent and nothing waited for it).
CallResult(raised, output, duration, exit_code, snk, child) ==
    [raised |-> raised, output |-> output, duration |-> duration,
     exit_code |-> exit_code, sink |-> snk, child |-> child]

\* Lines 120-121: the text returned after the child exited, from what was
\* extracted from the log.
resolve[parsed \in STRING, exit_code \in Int, stderr \in STRING] ==
    IF exit_code # 0 /\ parsed = ""
    THEN IF stderr # "" THEN "Error: " \o strip(stderr) ELSE "Unknown error"
    ELSE parsed

\* ClaudeAgent.call: the text, duration and exit code it returns (or that it
\* raises) and the log it leaves, for outcome o of the invocation.
call(self, snk, prompt, repo_path, node, timeout, o) ==
    Bind(_write_header(snk, node, repo_path, prompt), LAMBDA hdr :
    Bind(hdr \o Written("child", o.out), LAMBDA streamed :
    Bind(_write_footer(streamed, Elapsed, o.exit_code, FALSE), LAMBDA footed :
    LET not_found == "Error: Claude CLI not found at " \o self.claude_path
        generic == "Error: " \o FaultMessage
    IN
    CASE o.kind \in {"exit", "parse_fault", "log_fault"} ->
            Bind(resolve[IF o.kind = "parse_fault" THEN "" ELSE _parse_result(footed),
                         o.exit_code, o.stderr],
                 LAMBDA output :
                 IF o.kind = "log_fault"
                 THEN CallResult(FALSE, generic, Elapsed, -1,
                                 _write_response(footed, output), "reaped")
                 ELSE CallResult(FALSE, output, Elapsed, o.exit_code,
                                 _write_response(footed, output), "reaped"))
      [] o.kind = "trailer_fault" ->
            CallResult(FALSE, generic, Elapsed, -1, footed, "reaped")
      [] o.kind = "footer_fault" ->
            CallResult(FALSE, generic, Elapsed, -1, streamed, "reaped")
      [] o.kind = "timeout" ->
            CallResult(FALSE,
                       "Error: Timed out after "
                           \o ToString(TimeoutInForce(self, timeout)) \o "s",
                       Elapsed, -1,
                       _write_footer(streamed, Elapsed, -1, TRUE), "killed")
      [] o.kind = "timeout_footer_fault" ->
            CallResult(TRUE, FaultMessage, Elapsed, -1, streamed, "killed")
      [] o.kind \in {"notfound", "cwd_missing"} ->
            CallResult(FALSE, not_found, "0", -1, hdr, "none")
      [] o.kind = "header_enoent" ->
            CallResult(FALSE, not_found, "0", -1, snk, "none")
      [] o.kind = "header_fault" ->
            CallResult(FALSE, generic, Elapsed, -1, snk, "none")
      [] OTHER ->
            CallResult(FALSE, generic, Elapsed, -1, hdr, "none"))))

\* ------------------------------------------------ the workflow (graph.py)

Statuses == {"VALID", "INVALID", "PARTIAL"}

\* The request of the run that is followed alone.
Query == "What does f do?"

RepoPath == "/repo"

TaskId == "a1b2c3d4"

\* The state review_critique_graph.invoke is seeded with.
SeedState(task_id, query, repo_path, max_iterations) ==
    [task_id |-> task_id, query |-> query, repo_path |-> repo_path,
     answer |-> "", validation |-> "", validation_status |-> "",
     feedback |-> "", iteration |-> 1, max_iterations |-> max_iterations]

InitialState(max_iterations) == SeedState(TaskId, Query, RepoPath, max_iterations)

\* generator_node, "First generation": the prompt that frames the query.
DirectPrompt(query) ==
    Embed("You are a principle engineer who has expertise in understanding code fast "
          \o "and to answer queries. With your expertise please answer this query: ",
          query)

\* generator_node, "Regenerate with feedback": the prompt that quotes the
\* feedback and restates the query.
ImprovementPrompt(feedback, query) ==
    <<"Previous answer was marked as needing improvement.", "">>
    \o Embed("Feedback: ", feedback)
    \o <<"">>
    \o Embed("Original question: ", query)
    \o <<"", "Please provide an improved, complete answer addressing the feedback.">>

\* Mutant: the feedback is never threaded into the prompt.
generator_prompt_direct(st) == DirectPrompt(st.query)

\* The prompt generator_node builds (lines 41-53).
generator_prompt(st) ==
    IF st.feedback # "" THEN ImprovementPrompt(st.feedback, st.query)
    ELSE DirectPrompt(st.query)

\* The prompt validator_node builds (lines 69-86).
validator_prompt(st) ==
    <<"You are validating an answer about a codebase.", "">>
    \o Embed("Question: ", st.query)
    \o <<"", "Answer to validate:">>
    \o Embed("", st.answer)
    \o <<"",
         "Instructions:",
         "1. Check if the answer correctly addresses the question",
         "2. Verify code references are accurate (if any)",
         "3. Check for completeness",
         "",
         "Respond with EXACTLY one of these formats:",
         "- \"VALID\" - if the answer is correct and complete",
         "- \"INVALID: <specific issues>\" - if there are factual errors",
         "- \"PARTIAL: <what's missing>\" - if partially correct but incomplete",
         "",
         "Start your response with VALID, INVALID, or PARTIAL.">>

\* generator_node's update of the state, given what call_claude returned.
generator_node(st, answer) == [st EXCEPT !.answer = answer]

\* Mutant: the iteration is incremented on every verdict, VALID included.
validator_node_always_inc(st, validation) ==
    Bind(ParseStatus(validation), LAMBDA parsed :
    [st EXCEPT !.validation = validation,
               !.validation_status = parsed.status,
               !.feedback = parsed.feedback,
               !.iteration = st.iteration + 1])

\* Mutant: the validator's response also replaces the answer.
validator_node_clobber(st, validation) ==
    Bind(ParseStatus(validation), LAMBDA parsed :
    [st EXCEPT !.answer = validation,
               !.validation = validation,
               !.validation_status = parsed.status,
               !.feedback = parsed.feedback,
               !.iteration = IF parsed.status # "VALID" THEN st.iteration + 1
                             ELSE st.iteration])

\* Mutant: feedback is accumulated over the validations instead of overwritten.
validator_node_accumulate(st, validation) ==
    Bind(ParseStatus(validation), LAMBDA parsed :
    [st EXCEPT !.validation = validation,
               !.validation_status = parsed.status,
               !.feedback = IF parsed.status # "VALID"
                            THEN st.feedback \o parsed.feedback ELSE "",
               !.iteration = IF parsed.status # "VALID" THEN st.iteration + 1
                             ELSE st.iteration])

\* validator_node's update of the state, given what call_claude returned.
validator_node(st, validation) ==
    Bind(ParseStatus(validation), LAMBDA parsed :
    LET iteration == st.iteration
        next_iteration == IF parsed.status # "VALID" THEN iteration + 1 ELSE iteration
    IN [st EXCEPT !.validation = validation,
                  !.validation_status = parsed.status,
                  !.feedback = parsed.feedback,
                  !.iteration = next_iteration])

\* Mutant: the retry bound is compared with > instead of >=.
should_continue_gt(st) ==
    IF st.validation_status = "VALID" THEN "end"
    ELSE IF st.iteration > st.max_iterations THEN "end"
    ELSE "generator"

\* Mutant: on exhaustion the edge returns a key the graph does not map.
should_continue_badkey(st) ==
    IF st.validation_status = "VALID" THEN "end"
    ELSE IF st.iteration >= st.max_iterations THEN "finish"
    ELSE "generator"

\* Mutant: the retry bound is not tested at all.
should_continue_nobound(st) ==
    IF st.validation_status = "VALID" THEN "end" ELSE "generator"

\* should_continue: the conditional edge out of the validator.
should_continue(st) ==
    IF st.validation_status = "VALID" THEN "end"
    ELSE IF st.iteration >= st.max_iterations THEN "end"
    ELSE "generator"

\* The node label of an invocation.
\* Mutant: the label does not follow the iteration.
NodeLabel_first(name, iteration) == name \o "_v1"

\* f"generator_v{iteration}" and f"validator_v{iteration}".
NodeLabel(name, iteration) == name \o "_v" \o ToString(iteration)

\* run_review_critique's except branch: the error answer.
ErrorAnswer(msg) == "Error: " \o msg

\* call_claude as the two nodes use it: the configured agent, no timeout
\* argument.
call_claude(snk, prompt, repo_path, node, o) ==
    call(claude_agent, snk, prompt, repo_path, node, 0, o)

\* The record of one invocation: its number on the log, the arguments of call,
\* the outcome it met and the length of the log when it began.
Invocation(index, self, prompt, repo_path, node, timeout, o, base) ==
    [index |-> index, self |-> self, prompt |-> prompt, repo_path |-> repo_path,
     node |-> node, timeout |-> timeout, o |-> o, base |-> base]

\* What an invocation handed back, without the log.
Handed(r) ==
    [raised |-> r.raised, output |-> r.output, duration |-> r.duration,
     exit_code |-> r.exit_code, child |-> r.child]

\* No invocation recorded, no concurrent runs, no logs directory followed.
NoInv == [index |-> 0]

NoRes == <<>>

NoTasks == <<>>

NoFiles == <<>>

\* The variables a run followed alone leaves alone.
aside == <<probe, extracted, tasks, files>>

\* run_review_critique seeds max_iterations = 3; the graph reads the bound from
\* the state it is invoked with, so the runs of every bound 1..MaxIterations
\* are modelled.
Init ==
    /\ state \in {InitialState(m) : m \in 1..MaxIterations}
    /\ pc = "generator"
    /\ sink = <<>>
    /\ returned = NoValue
    /\ gens = 0
    /\ vals = 0
    /\ lastGen = NoValue
    /\ lastVal = NoValue
    /\ lastPrompt = <<>>
    /\ probe = NoProbe
    /\ extracted = <<>>
    /\ inv = NoInv
    /\ res = NoRes
    /\ tasks = NoTasks
    /\ files = NoFiles

\* The generator node runs: one invocation, then the edge to the validator.
\* An exception escaping the invocation ends the run in run_review_critique's
\* except branch.
Generator ==
    /\ pc = "generator"
    /\ \E prompt \in {generator_prompt(state)} : \E o \in Outcomes :
         /\ inv' = Invocation(inv.index + 1, claude_agent, prompt, state.repo_path,
                              NodeLabel("generator", state.iteration), 0, o, Len(sink))
         /\ \E r \in {call_claude(sink, prompt, state.repo_path,
                                  NodeLabel("generator", state.iteration), o)} :
              /\ sink' = r.sink
              /\ res' = Handed(r)
              /\ gens' = gens + 1
              /\ lastPrompt' = prompt
              /\ IF r.raised
                 THEN /\ pc' = "failed"
                      /\ returned' = ErrorAnswer(r.output)
                      /\ UNCHANGED <<state, lastGen>>
                 ELSE /\ state' = generator_node(state, r.output)
                      /\ lastGen' = r.output
                      /\ pc' = "validator"
                      /\ UNCHANGED returned
    /\ UNCHANGED <<vals, lastVal, aside>>

\* The validator node runs: one invocation, the verdict, then the conditional
\* edge should_continue takes on the updated state.
Validator ==
    /\ pc = "validator"
    /\ \E prompt \in {validator_prompt(state)} : \E o \in Outcomes :
         /\ inv' = Invocation(inv.index + 1, claude_agent, prompt, state.repo_path,
                              NodeLabel("validator", state.iteration), 0, o, Len(sink))
         /\ \E r \in {call_claude(sink, prompt, state.repo_path,
                                  NodeLabel("validator", state.iteration), o)} :
              /\ sink' = r.sink
              /\ res' = Handed(r)
              /\ vals' = vals + 1
              /\ IF r.raised
                 THEN /\ pc' = "failed"
                      /\ returned' = ErrorAnswer(r.output)
                      /\ UNCHANGED <<state, lastVal>>
                 ELSE /\ state' = validator_node(state, r.output)
                      /\ lastVal' = r.output
                      /\ pc' = should_continue(state')
                      /\ UNCHANGED returned
    /\ UNCHANGED <<gens, lastGen, lastPrompt, aside>>

\* The graph reached END: run_review_critique returns result["answer"].
Return ==
    /\ pc = "end"
    /\ returned' = state.answer
    /\ pc' = "done"
    /\ UNCHANGED <<state, sink, gens, vals, lastGen, lastVal, lastPrompt, inv, res, aside>>

Next == Generator \/ Validator \/ Return

Spec == Init /\ [][Next]_vars

\* The run is one sequential thread that is never starved.
FairSpec == Spec /\ WF_vars(Next)

\* ------------------------------------- verdict parsing as a pure function

\* A validator response built from leading whitespace, a leading word and a
\* tail; lead is the token the word spells when case is ignored ("OTHER" when
\* it spells none of the three).
Pads == {"", " ", "\n ", "\t"}

Words ==
    {[word |-> w, lead |-> "VALID"] : w \in {"VALID", "valid", "Valid", "vAlId"}}
    \cup {[word |-> w, lead |-> "INVALID"] : w \in {"INVALID", "invalid", "Invalid", "iNvAlId"}}
    \cup {[word |-> w, lead |-> "PARTIAL"] : w \in {"PARTIAL", "partial", "Partial", "pArTiAl"}}
    \cup {[word |-> w, lead |-> "OTHER"] :
            w \in {"", "VAL", "INVAL", "PART", "Error", "NOT VALID", "IN VALID", "LID"}}

Tails == {"", ": x", "ATED", " \n", ": valid"}

Probes ==
    {[pad |-> p, word |-> w.word, tail |-> t, lead |-> w.lead] :
        p \in Pads, w \in Words, t \in Tails}

ProbeText(pr) == pr.pad \o pr.word \o pr.tail

ClassifyInit ==
    /\ probe \in Probes
    /\ state \in {InitialState(m) : m \in 1..MaxIterations}
    /\ pc = "classify"
    /\ sink = <<>>
    /\ returned = NoValue
    /\ gens = 0
    /\ vals = 0
    /\ lastGen = NoValue
    /\ lastVal = NoValue
    /\ lastPrompt = <<>>
    /\ extracted = <<>>
    /\ inv = NoInv
    /\ res = NoRes
    /\ tasks = NoTasks
    /\ files = NoFiles

\* validator_node applied to the probe's text as the validator's response.
Classify ==
    /\ pc = "classify"
    /\ state' = validator_node(state, ProbeText(probe))
    /\ lastVal' = ProbeText(probe)
    /\ pc' = "classified"
    /\ UNCHANGED <<sink, returned, gens, vals, lastGen, lastPrompt, probe,
                   extracted, inv, res, tasks, files>>

SpecClassify == ClassifyInit /\ [][Classify]_vars

\* ------------------------------------------------------------------ claims

NonValid == {"INVALID", "PARTIAL"}

\* A validator step that returned a verdict (its invocation did not raise).
ValidateStep == pc = "validator" /\ pc' # "failed"

\* C1: in every reachable state of a run, for every max-iterations bound >= 1,
\* the iteration counter is at most max-iterations.
C1_IterationWithinBound == state.iteration <= state.max_iterations

\* C2: the iteration counter starts at 1, never decreases, a VALIDATE step
\* adds exactly 1 to it if and only if the status that step computed is
\* INVALID or PARTIAL, and a VALID verdict and every GENERATE step leave it
\* unchanged.
C2_IterationSteps ==
    /\ state.iteration = 1
    /\ [][/\ state'.iteration >= state.iteration
          /\ (pc = "generator" => state'.iteration = state.iteration)
          /\ (ValidateStep =>
                /\ state'.validation_status \in Statuses
                /\ (state'.validation_status \in NonValid
                      <=> state'.iteration = state.iteration + 1)
                /\ (state'.validation_status = "VALID"
                      <=> state'.iteration = state.iteration))]_vars

\* A run in which a non-VALID verdict raised the counter and a later VALID
\* verdict left it alone.
C2_Witness ==
    /\ vals = 2 /\ state.iteration = 2 /\ state.validation_status = "VALID"
    /\ pc = "end"

\* C3: right after a VALIDATE step the run is at the terminal state if the
\* status is VALID, else at the terminal state if the updated iteration is
\* >= max-iterations, and otherwise back at GENERATE with the updated
\* iteration and the feedback of that validation; there is no other
\* transition.
C3_TransitionRule ==
    [][ValidateStep =>
         /\ pc' \in {"end", "generator"}
         /\ (state'.validation_status = "VALID" => pc' = "end")
         /\ (state'.validation_status # "VALID"
               /\ state'.iteration >= state'.max_iterations => pc' = "end")
         /\ (state'.validation_status # "VALID"
               /\ state'.iteration < state'.max_iterations =>
                   /\ pc' = "generator"
                   /\ state'.iteration = state.iteration + 1
                   /\ state'.feedback = lastVal')]_vars

\* A run that looped back to GENERATE after a rejected first answer.
C3_Witness ==
    /\ pc = "generator" /\ vals = 1 /\ state.iteration = 2
    /\ state.feedback = "INVALID: x" /\ state.validation_status = "INVALID"

\* C4: a run in which every verdict is non-VALID executes exactly
\* max-iterations GENERATE/VALIDATE pairs before terminating, and no run
\* executes more.
C4_RetryBudget ==
    /\ gens <= state.max_iterations
    /\ vals <= state.max_iterations
    /\ (pc \in {"end", "done"} /\ state.validation_status \in NonValid =>
          gens = state.max_iterations /\ vals = state.max_iterations)

\* C5: every run eventually returns an answer, whatever the verdicts and the
\* outcomes of the invocations.
C5_Terminates == <>(pc \in {"done", "failed"} /\ returned # NoValue)

\* A run that ended by exhausting its retries, with a timed-out invocation.
C5_Witness ==
    /\ pc = "done" /\ state.validation_status \in NonValid
    /\ state.iteration = state.max_iterations /\ gens = 2
    /\ \E i \in 1..Len(sink) :
          sink[i].src = "footer" /\ startswith(sink[i].line, "[TIMEOUT after ")

\* C6: the answer a run returns, whether it ended by a VALID verdict or by
\* exhausting max-iterations, is the text of the last GENERATE invocation.
C6_ReturnsLastGenerate ==
    /\ (pc = "done" => returned = lastGen)
    /\ (pc \in {"validator", "end", "done"} => state.answer = lastGen)

\* A run that returned its second answer after a rejection and a verdict on
\* the second answer that differs from the answer.
C6_Witness ==
    /\ pc = "done" /\ gens = 2 /\ vals = 2
    /\ returned = "Answer" /\ lastVal = " Partial: y"

\* C7: on the whitespace-trimmed response, case ignored: a leading VALID
\* gives status VALID and empty feedback, a leading INVALID gives INVALID
\* and the full untrimmed response as feedback, a leading PARTIAL gives
\* PARTIAL and the full response; a response leading with INVALID is never
\* VALID.
C7_Classification ==
    pc = "classified" =>
        /\ (probe.lead = "VALID" =>
              state.validation_status = "VALID" /\ state.feedback = "")
        /\ (probe.lead = "INVALID" =>
              /\ state.validation_status = "INVALID"
              /\ state.feedback = probe.pad \o probe.word \o probe.tail)
        /\ (probe.lead = "PARTIAL" =>
              /\ state.validation_status = "PARTIAL"
              /\ state.feedback = probe.pad \o probe.word \o probe.tail)

\* A padded, lower-case rejection was classified.
C7_Witness ==
    /\ pc = "classified" /\ probe.pad = "\n " /\ probe.word = "invalid"
    /\ probe.tail = ": valid" /\ state.validation_status = "INVALID"

\* Texts of the workflow that lead with none of the three tokens.
Unrecognized ==
    {"", "Answer", "Unknown error", "Error: boom",
     "Error: Timed out after 300s",
     "Error: Claude CLI not found at /opt/homebrew/bin/claude",
     "Error: [Errno 13] Permission denied"}

\* C8: when the validator's text leads with none of VALID, INVALID, PARTIAL
\* (a failure diagnostic included), the status becomes VALID, the feedback
\* empty, the iteration is unchanged, and the run ends returning the current
\* answer with no further GENERATE.
C8_FailOpen ==
    [][/\ (ValidateStep /\ lastVal' \in Unrecognized =>
             /\ state'.validation_status = "VALID"
             /\ state'.feedback = ""
             /\ state'.iteration = state.iteration
             /\ state'.answer = state.answer
             /\ pc' = "end")
       /\ (pc = "end" => pc' = "done" /\ returned' = state.answer /\ gens' = gens)]_vars

\* A second validation timed out and the run ended on it.
C8_Witness ==
    /\ pc = "done" /\ vals = 2 /\ lastVal = "Error: Timed out after 300s"
    /\ state.validation_status = "VALID" /\ state.iteration = 2

\* C9: with max-iterations = 1 a run executes one GENERATE, then one
\* VALIDATE, then terminates, whatever the verdict; GENERATE is not
\* re-entered.
C9_SinglePass ==
    state.max_iterations = 1 =>
        /\ gens <= 1 /\ vals <= 1
        /\ (pc = "generator" => gens = 0)
        /\ (pc = "validator" => gens = 1 /\ vals = 0)
        /\ (pc \in {"end", "done"} => gens = 1 /\ vals = 1)

\* A run with max-iterations = 1 ended on a rejection.
C9_Witness ==
    /\ state.max_iterations = 1 /\ pc = "done"
    /\ state.validation_status = "INVALID" /\ gens = 1 /\ vals = 1

\* C10: feedback is non-empty only if the status is INVALID or PARTIAL, and
\* once a validation has returned the feedback is that validation's response
\* (empty on VALID), never text of an earlier validation.
C10_FeedbackOverwritten ==
    /\ (state.feedback # "" => state.validation_status \in NonValid)
    /\ (lastVal = NoValue => state.feedback = "")
    /\ (lastVal # NoValue =>
          state.feedback = IF state.validation_status = "VALID" THEN "" ELSE lastVal)

\* Two rejections with different texts: the feedback is the second one.
C10_Witness ==
    /\ vals = 2 /\ state.feedback = " Partial: y" /\ state.validation = " Partial: y"
    /\ \E i \in 1..Len(sink) :
          /\ sink[i].src = "header"
          /\ sink[i].line = "[" \o Timestamp \o "] VALIDATOR_V1"
    /\ \E i \in 1..Len(sink) : sink[i].src = "trailer" /\ sink[i].line = "INVALID: x"

\* The lines ls stand in p one after the other.
HasLines(p, ls) ==
    \E i \in 1..(Len(p) - Len(ls) + 1) : SubSeq(p, i, i + Len(ls) - 1) = ls

endswith(s, suffix) ==
    Len(s) >= Len(suffix) /\ SubSeq(s, Len(s) - Len(suffix) + 1, Len(s)) = suffix

\* A GENERATE step: the generator node made its invocation.
GenerateStep == pc = "generator" /\ gens' = gens + 1

\* C11: the first GENERATE of a run uses the direct prompt, which frames the
\* original query and quotes no feedback; every later GENERATE follows a
\* VALIDATE, whose response is non-empty, is the pending feedback, and stands
\* verbatim in the improvement prompt together with the original query.
C11_PromptThreading ==
    [][GenerateStep =>
         /\ (gens = 0 =>
               /\ vals = 0
               /\ Len(lastPrompt') = 1
               /\ startswith(lastPrompt'[1], "You are a principle engineer")
               /\ endswith(lastPrompt'[1], "please answer this query: " \o Query)
               /\ \A i \in 1..Len(lastPrompt') : ~startswith(lastPrompt'[i], "Feedback: "))
         /\ (gens > 0 =>
               /\ vals = gens
               /\ lastVal \notin {"", NoValue}
               /\ state.feedback = lastVal
               /\ lastPrompt'[1] = "Previous answer was marked as needing improvement."
               /\ HasLines(lastPrompt', split("Feedback: " \o lastVal, "\n"))
               /\ HasLines(lastPrompt', split("Original question: " \o Query, "\n")))
         /\ inv'.prompt = lastPrompt'
         /\ HasLines([i \in 1..Len(sink') |-> sink'[i].line],
                     split("Prompt: " \o lastPrompt'[1], "\n"))]_vars

\* A second GENERATE ran on the feedback of a PARTIAL verdict.
C11_Witness ==
    /\ gens = 2 /\ vals = 1 /\ pc = "validator" /\ lastVal = " Partial: y"
    /\ \E i \in 1..Len(lastPrompt) : lastPrompt[i] = "Feedback:  Partial: y"

\* ------------------------------------- result extraction as a pure function

\* Lines a log can hold: blank lines, prose, a line json.loads rejects (with
\* and without a trailing remainder), an event of another type, result
\* events, a result event between white space, a result event without a
\* "result" member and an object without a "type" member.
ParseLines ==
    {"", "  ", "text", "{not json",
     Event("tool_use", "t"),
     Event("result", "A"),
     Event("result", "B"),
     " " \o Event("result", "C") \o " ",
     Event("result", "E") \o "x",
     Event("result", NoValue),
     "{\"result\":\"D\"}"}

ParseInit ==
    /\ pc = "parse"
    /\ sink = <<>>
    /\ extracted = <<>>
    /\ state = InitialState(SEED_MAX_ITERATIONS)
    /\ returned = NoValue
    /\ gens = 0
    /\ vals = 0
    /\ lastGen = NoValue
    /\ lastVal = NoValue
    /\ lastPrompt = <<>>
    /\ probe = NoProbe
    /\ inv = NoInv
    /\ res = NoRes
    /\ tasks = NoTasks
    /\ files = NoFiles

\* One more line reaches the file before it is read back.
WriteLine ==
    /\ pc = "parse"
    /\ extracted = <<>>
    /\ Len(sink) < MaxLines
    /\ \E l \in ParseLines : sink' = Append(sink, Entry("file", l))
    /\ UNCHANGED <<state, pc, returned, gens, vals, lastGen, lastVal, lastPrompt,
                   probe, extracted, inv, res, tasks, files>>

\* _parse_result reads the file; it is applied twice to the same content.
Extract ==
    /\ pc = "parse"
    /\ Len(extracted) < 2
    /\ extracted' = Append(extracted, _parse_result(sink))
    /\ UNCHANGED <<state, pc, sink, returned, gens, vals, lastGen, lastVal,
                   lastPrompt, probe, inv, res, tasks, files>>

SpecParse == ParseInit /\ [][WriteLine \/ Extract]_vars

\* The object a line decodes to has "type" "result"; its payload is its
\* "result" member, the empty text when it has none.
DecodesToResult(t) ==
    LET event == json_loads(t)
    IN /\ event.ok
       /\ \E j \in 1..Len(event.members) :
             /\ event.members[j] = [key |-> "type", value |-> "result"]
             /\ \A k \in (j + 1)..Len(event.members) : event.members[k].key # "type"

Payload(t) == dict_get[json_loads(t).members, "result", ""]

\* The scan does not skip the line: with its surrounding white space removed
\* it is not empty, starts with an open brace and decodes to a result event.
Qualifies(l) ==
    LET t == strip(l)
    IN t # "" /\ startswith(t, "{") /\ DecodesToResult(t)

\* The same test on the line as written, white space included.
QualifiesAsWritten(l) ==
    /\ strip(l) # ""
    /\ startswith(l, "{")
    /\ DecodesToResult(l)

\* The lines of a content that pass the test, trimmed and as written.
Passing(snk) == {i \in 1..Len(snk) : Qualifies(snk[i].line)}

PassingAsWritten(snk) == {i \in 1..Len(snk) : QualifiesAsWritten(snk[i].line)}

\* The text extraction owes a content whose lines at passes pass the test:
\* the payload of the last of them, the empty text when there is none.
Owed(snk, passes) ==
    IF passes = {} THEN ""
    ELSE Payload(strip(snk[CHOOSE i \in passes : \A j \in passes : j <= i].line))

C12_IndentedWitness ==
    /\ pc = "parse"
    /\ Len(sink) >= 1
    /\ sink[Len(sink)].line = " " \o Event("result", "C") \o " "
    /\ extracted = <<"C", "C">>

\* ------------------------------------------ invocations on one task's log

\* The configurations a process can run with: the defaults, or CLAUDE_PATH
\* and CLAUDE_TIMEOUT set in the environment.
Agents == {claude_agent, ClaudeAgent("/usr/local/bin/claude", 7)}

\* What a caller asks of one invocation: the prompt (one of them quotes a
\* stream-json result line), the node label, and the timeout argument (0 when
\* it is left at None).
Requests ==
    {[prompt |-> <<"Q">>, node |-> "generator_v1", timeout |-> 0],
     [prompt |-> <<"Check:", Event("result", "P")>>, node |-> "validator_v1",
      timeout |-> 0],
     [prompt |-> <<"Q">>, node |-> "generator_v2", timeout |-> 5]}

Progress == Event("tool_use", NoValue)

\* The outcomes one invocation is exposed to: every place where call can leave
\* its try block, with children that do and do not write a result event.
CallOutcomes ==
    {Outcome("exit", <<Progress, Event("result", "Answer")>>, 0, ""),
     Outcome("exit", <<Progress>>, 0, ""),
     Outcome("exit", <<>>, 1, ""),
     Outcome("exit", <<Progress>>, 1, " boom\n"),
     Outcome("exit", <<Event("result", "Half")>>, 1, " boom\n"),
     Outcome("parse_fault", <<Event("result", "Answer")>>, 0, ""),
     Outcome("footer_fault", <<Event("result", "Answer")>>, 0, ""),
     Outcome("trailer_fault", <<Event("result", "Answer")>>, 0, ""),
     Outcome("log_fault", <<Event("result", "Answer")>>, 0, ""),
     Outcome("timeout", <<Progress>>, -1, ""),
     Outcome("timeout", <<Event("result", "Late")>>, -1, ""),
     Outcome("timeout_footer_fault", <<Progress>>, -1, "")}
    \cup {Outcome(k, <<>>, -1, "") :
            k \in {"notfound", "cwd_missing", "spawn_fault", "header_enoent",
                   "header_fault"}}

\* The process starts with its configuration resolved and the task's log
\* empty.
CallInit ==
    /\ pc = "call"
    /\ sink = <<>>
    /\ inv \in {[index |-> 0, self |-> a] : a \in Agents}
    /\ res = NoRes
    /\ state = InitialState(SEED_MAX_ITERATIONS)
    /\ returned = NoValue
    /\ gens = 0
    /\ vals = 0
    /\ lastGen = NoValue
    /\ lastVal = NoValue
    /\ lastPrompt = <<>>
    /\ probe = NoProbe
    /\ extracted = <<>>
    /\ tasks = NoTasks
    /\ files = NoFiles

\* One call of ClaudeAgent.call on the task's log, from its first line to its
\* return or to the exception that escapes it; an escaping exception ends the
\* task.
Invoke ==
    /\ pc = "call"
    /\ inv.index < MaxCalls
    /\ \E q \in Requests : \E o \in CallOutcomes :
         /\ inv' = Invocation(inv.index + 1, inv.self, q.prompt, RepoPath, q.node,
                              q.timeout, o, Len(sink))
         /\ \E r \in {call(inv.self, sink, q.prompt, RepoPath, q.node, q.timeout, o)} :
              /\ sink' = r.sink
              /\ res' = Handed(r)
              /\ pc' = IF r.raised THEN "raised" ELSE "call"
    /\ UNCHANGED <<state, returned, gens, vals, lastGen, lastVal, lastPrompt,
                   probe, extracted, tasks, files>>

SpecCall == CallInit /\ [][Invoke]_vars

\* An invocation has been made and its outcome was of kind k.
Met(k) == inv.index > 0 /\ inv.o.kind = k

\* The lines the last invocation added to the log.
Gained == SubSeq(sink, inv.base + 1, Len(sink))

\* The log before the last invocation.
Before == SubSeq(sink, 1, inv.base)

\* C13: when the child has not exited by the timeout (and the footer can be
\* written), call kills the child, appends a TIMEOUT footer and neither a
\* completion footer nor a trailer, and returns "Error: Timed out after
\* {timeout}s" with the timeout in force for that call (the argument when one
\* is given, the configured one otherwise) and exit code -1; the text is not
\* taken from the log, whatever result events the log holds.
C13_Timeout ==
    Met("timeout") =>
        /\ ~res.raised
        /\ res.child = "killed"
        /\ res.exit_code = -1
        /\ res.output = "Error: Timed out after "
                            \o ToString(IF inv.timeout # 0 THEN inv.timeout
                                        ELSE inv.self.timeout) \o "s"
        /\ Len(Gained) >= 2
        /\ Gained[Len(Gained)] = Entry("footer", "[TIMEOUT after " \o Elapsed \o "s]")
        /\ \A i \in 1..Len(Gained) :
              /\ ~startswith(Gained[i].line, "[Completed in ")
              /\ Gained[i].src # "trailer"

\* A call given a timeout of 5 timed out after its child had written a result
\* event, on a log that already held the result of an earlier invocation.
C13_Witness ==
    /\ Met("timeout")
    /\ inv.index = 2
    /\ inv.timeout = 5
    /\ inv.o.out = <<Event("result", "Late")>>
    /\ res.output = "Error: Timed out after 5s"
    /\ \E i \in 1..Len(Before) : Before[i].line = Event("result", "Answer")

\* The child of the last invocation wrote no result event.
NoOwnResult == \A i \in 1..Len(inv.o.out) : ~Qualifies(inv.o.out[i])

\* The diagnostic built from the captured standard error.
Diagnostic(stderr) ==
    IF stderr # "" THEN "Error: " \o strip(stderr) ELSE "Unknown error"

\* C14: if the child exits with a non-zero code and emitted no result event,
\* the text call returns is the diagnostic built from the trimmed standard
\* error, or the unknown-error marker when standard error is empty; and every
\* invocation that returns a non-zero exit code returns a non-empty text.
C14_StderrFallback ==
    /\ (Met("exit") /\ inv.o.exit_code # 0 /\ NoOwnResult
            => res.output = Diagnostic(inv.o.stderr))
    /\ (inv.index > 0 /\ ~res.raised /\ res.exit_code # 0 => res.output # "")

\* The failing case of C14: a child that failed without a result event, on a
\* log whose earlier invocation left a result, hands back that earlier result.
C14_StaleWitness ==
    /\ Met("exit") /\ inv.o.exit_code = 1 /\ inv.o.out = <<Progress>>
    /\ inv.o.stderr = " boom\n"
    /\ inv.prompt = <<"Q">>
    /\ res.output = "Answer"
    /\ res.exit_code = 1

\* The part of C14 that holds: a non-zero exit code never comes with an empty
\* text.
C14_NonEmpty ==
    inv.index > 0 /\ ~res.raised /\ res.exit_code # 0 => res.output # ""

\* The two diagnostics of the except branches of call.
NotFoundText == "Error: Claude CLI not found at " \o inv.self.claude_path

GenericText == "Error: " \o FaultMessage

\* C15: a binary missing at the configured path gives the diagnostic naming
\* that path with exit code -1 and duration 0, and no child is spawned; every
\* other spawn or runtime fault (a missing working directory, a log that
\* cannot be opened, a failing write) gives the generic diagnostic with exit
\* code -1 and the elapsed time as duration, not the binary-not-found
\* diagnostic.
C15_SpawnFaults ==
    /\ (Met("notfound") =>
            /\ ~res.raised
            /\ res.output = NotFoundText
            /\ res.exit_code = -1
            /\ res.duration = "0"
            /\ res.child = "none")
    /\ (inv.index > 0
        /\ inv.o.kind \in {"cwd_missing", "spawn_fault", "header_enoent", "header_fault",
                           "footer_fault", "trailer_fault", "log_fault"}
        => /\ ~res.raised
           /\ res.output = GenericText
           /\ res.output # NotFoundText
           /\ res.exit_code = -1
           /\ res.duration = Elapsed)

\* The failing case of C15: the working directory is missing and the caller
\* is told that the binary is.
C15_CwdWitness ==
    /\ Met("cwd_missing")
    /\ res.output = NotFoundText
    /\ res.duration = "0"

\* The part of C15 that holds: the missing binary, and the faults that do not
\* raise FileNotFoundError.
C15_Holds ==
    /\ (Met("notfound") =>
            /\ res.output = NotFoundText /\ res.exit_code = -1
            /\ res.duration = "0" /\ res.child = "none")
    /\ (inv.index > 0
        /\ inv.o.kind \in {"spawn_fault", "header_fault", "footer_fault",
                           "trailer_fault", "log_fault"}
        => /\ res.output = GenericText /\ res.exit_code = -1
           /\ res.duration = Elapsed)

\* C16: no exception escapes call: for every fault at every step of an
\* invocation, call returns a (text, duration, exit code) triple to its caller
\* instead of raising.
C16_NoEscape == inv.index > 0 => ~res.raised /\ pc # "raised"

\* The failing case of C16: the write of the TIMEOUT footer fails inside the
\* handler of TimeoutExpired, and the exception leaves call.
C16_EscapeWitness ==
    /\ Met("timeout_footer_fault")
    /\ res.raised
    /\ res.output = FaultMessage
    /\ res.child = "killed"
    /\ pc = "raised"

\* The part of C16 that holds: a fault inside the try block itself is turned
\* into a returned triple.
C16_TryBlockFaults ==
    inv.index > 0 /\ inv.o.kind # "timeout_footer_fault" =>
        /\ ~res.raised
        /\ res.exit_code \in {inv.o.exit_code, -1}
        /\ res.output # NoValue

\* C18: the text returned by an invocation whose child exited is the payload
\* of a result event written by that invocation's own child (or, when the
\* child wrote none, the empty text or the standard-error diagnostic); it is
\* never the payload of a result event an earlier invocation left in the log,
\* nor a line of a header or of a trailer.
C18_OwnResult ==
    Met("exit") =>
        \/ \E i \in 1..Len(inv.o.out) :
              /\ Qualifies(inv.o.out[i])
              /\ res.output = Payload(strip(inv.o.out[i]))
        \/ /\ NoOwnResult
           /\ res.output \in {"", Diagnostic(inv.o.stderr)}

\* The failing case of C18 on the log alone: a child that exits 0 without a
\* result event hands back the result of the invocation before it.
C18_StaleWitness ==
    /\ Met("exit") /\ inv.index = 2
    /\ inv.o.exit_code = 0 /\ inv.o.out = <<Progress>>
    /\ inv.prompt = <<"Q">>
    /\ res.output = "Answer"
    /\ \E i \in 1..Len(Before) : Before[i] = Entry("child", Event("result", "Answer"))
    /\ \A i \in 1..Len(Before) : Before[i].src = "header" => ~Qualifies(Before[i].line)

\* The failing case of C18 through a header: the prompt holds a line that
\* reads as a result event, the child writes none, and the prompt line is
\* returned.
C18_HeaderWitness ==
    /\ Met("exit") /\ inv.index = 1
    /\ inv.o.out = <<Progress>>
    /\ inv.prompt = <<"Check:", Event("result", "P")>>
    /\ res.output = "P"

\* The failing case of C18 in the workflow: the validator's child writes
\* nothing and the generator's rejected-looking answer comes back as the
\* validator's verdict.
C18_VerdictWitness ==
    /\ vals = 1 /\ gens = 1
    /\ Met("exit") /\ inv.o.out = <<>> /\ inv.o.exit_code = 0
    /\ lastGen = "INVALID: x"
    /\ lastVal = "INVALID: x"
    /\ state.validation_status = "INVALID"

\* What does hold for C18: with a result event of its own, the child's last
\* one is returned.
C18_OwnWins ==
    Met("exit") /\ ~NoOwnResult =>
        res.output = Owed(Written("child", inv.o.out),
                          Passing(Written("child", inv.o.out)))

\* The writers of a stretch of log, and their order in an invocation.
SrcsOf(g) == {g[i].src : i \in 1..Len(g)}

Rank(src) ==
    CASE src = "header" -> 1
      [] src = "child" -> 2
      [] src = "footer" -> 3
      [] src = "trailer" -> 4
      [] OTHER -> 0

InOrder(g) ==
    \A i \in 1..Len(g) : \A j \in (i + 1)..Len(g) : Rank(g[i].src) <= Rank(g[j].src)

LinesOf(g, src) ==
    LET at == {i \in 1..Len(g) : g[i].src = src}
    IN [k \in 1..Cardinality(at) |->
           g[CHOOSE i \in at : Cardinality({j \in at : j <= i}) = k].line]

\* C19 as stated: every invocation that returns, whatever its outcome, has
\* added a header block, the child's output, a footer block and a trailer, in
\* this order.
C19_AsStated ==
    inv.index > 0 /\ ~res.raised =>
        /\ InOrder(Gained)
        /\ {"header", "footer", "trailer"} \subseteq SrcsOf(Gained)
        /\ LinesOf(Gained, "child") = inv.o.out

\* The blocks other than the child's output that an invocation of outcome
\* kind k adds.
BlocksOf(k) ==
    CASE k \in {"exit", "parse_fault", "log_fault"} -> {"header", "footer", "trailer"}
      [] k \in {"trailer_fault", "timeout"} -> {"header", "footer"}
      [] k \in {"footer_fault", "timeout_footer_fault", "notfound", "cwd_missing",
                "spawn_fault"} -> {"header"}
      [] OTHER -> {}

\* C19 (amended): an invocation adds to the task's log, in this order and
\* with nothing else in between, a header block, the child's raw output, a
\* footer and a trailer, as far as it gets: all four when the child exits (the
\* completion footer); header, output and the TIMEOUT footer but no trailer
\* when it times out; the header alone when the child cannot be spawned;
\* nothing when the log cannot be opened for the header; and no block whose
\* write fails.  The log is append-only: its earlier content is a prefix of
\* its later content.
C19_LogShape ==
    /\ [](inv.index > 0 =>
            /\ InOrder(Gained)
            /\ SrcsOf(Gained) \ {"child"} = BlocksOf(inv.o.kind)
            /\ LinesOf(Gained, "child")
                   = (IF "header" \in SrcsOf(Gained) THEN inv.o.out ELSE <<>>)
            /\ ("header" \in SrcsOf(Gained) =>
                    /\ Gained[3].line = "[" \o Timestamp \o "] " \o upper(inv.node)
                    /\ HasLines(LinesOf(Gained, "header"),
                                <<"Prompt: " \o inv.prompt[1]>>))
            /\ ("footer" \in SrcsOf(Gained) =>
                    LinesOf(Gained, "footer")[2]
                        = (IF inv.o.kind = "timeout"
                           THEN "[TIMEOUT after " \o Elapsed \o "s]"
                           ELSE "[Completed in " \o Elapsed \o "s, exit: "
                                \o ToString(inv.o.exit_code) \o "]"))
            /\ ("trailer" \in SrcsOf(Gained) =>
                    LinesOf(Gained, "trailer")[3] = "PARSED RESPONSE:"))
    /\ [][SubSeq(sink', 1, Len(sink)) = sink]_vars

\* A second invocation found no binary and added its header alone to a log
\* whose first invocation timed out and left no trailer.
C19_Witness ==
    /\ Met("notfound") /\ inv.index = 2 /\ ~res.raised
    /\ SrcsOf(Gained) = {"header"}
    /\ SrcsOf(Before) = {"header", "child", "footer"}
    /\ Before[Len(Before)].line = "[TIMEOUT after " \o Elapsed \o "s]"

\* C20: when call returns after a timeout, the child it spawned has been
\* terminated and reaped: call never returns the timeout result while its
\* child is still running, or killed and not yet waited for.
C20_Reaped ==
    Met("timeout") /\ ~res.raised => res.child = "reaped"

\* The failing case of C20: the timeout result is handed back with the child
\* killed and never waited for.
C20_ZombieWitness ==
    /\ Met("timeout")
    /\ ~res.raised
    /\ startswith(res.output, "Error: Timed out after ")
    /\ res.child = "killed"

\* What does hold for C20: a child whose exit communicate() saw is reaped,
\* and a failed spawn leaves no child.
C20_ExitedReaped ==
    inv.index > 0 =>
        /\ (inv.o.kind \in {"exit", "parse_fault", "footer_fault", "trailer_fault",
                            "log_fault"} => res.child = "reaped")
        /\ (inv.o.kind \in {"notfound", "cwd_missing", "spawn_fault", "header_enoent",
                            "header_fault"} => res.child = "none")

\* --------------------------------------------- runs of two tasks interleaved

\* Two task identifiers as handle_jsonrpc draws them (the first eight
\* characters of a uuid4), with the queries of their requests.
TaskIds == {TaskId, "e5f6a7b8"}

TaskQuery(task_id) == IF task_id = TaskId THEN Query ELSE "Where is g?"

\* Mutant: every task writes to one log.
OutputFile_shared(task_id) == "claude.log"

\* os.path.join(logs_dir, f"{task_id}_claude.log"), within the logs directory.
OutputFile(task_id) == task_id \o "_claude.log"

\* The outcomes the interleaved runs are exposed to: the child exits 0 with a
\* rejecting verdict as its result, with an answer as its result, or without
\* a result event.
TaskOutcomes ==
    {Outcome("exit", <<Event("result", "INVALID: x")>>, 0, ""),
     Outcome("exit", <<Event("result", "Answer")>>, 0, ""),
     Outcome("exit", <<>>, 0, "")}

\* A run: the state of its graph, its position, what it returned, and solo,
\* the same run fed the same outcomes with no other task in the process.
Run(st, at, ret, solo) == [state |-> st, pc |-> at, returned |-> ret, solo |-> solo]

Alone(st, snk) == [state |-> st, sink |-> snk]

TasksInit ==
    /\ tasks = [t \in TaskIds |->
                  Run(SeedState(t, TaskQuery(t), RepoPath, SEED_MAX_ITERATIONS),
                      "generator", NoValue,
                      Alone(SeedState(t, TaskQuery(t), RepoPath, SEED_MAX_ITERATIONS),
                            <<>>))]
    /\ files = [f \in {OutputFile(t) : t \in TaskIds} |-> <<>>]
    /\ pc = "tasks"
    /\ state = InitialState(SEED_MAX_ITERATIONS)
    /\ sink = <<>>
    /\ returned = NoValue
    /\ gens = 0
    /\ vals = 0
    /\ lastGen = NoValue
    /\ lastVal = NoValue
    /\ lastPrompt = <<>>
    /\ probe = NoProbe
    /\ extracted = <<>>
    /\ inv = NoInv
    /\ res = NoRes

beside == <<state, pc, sink, returned, gens, vals, lastGen, lastVal, lastPrompt,
            probe, extracted, inv, res>>

\* The generator node of task t runs.
TaskGenerator(t) ==
    /\ tasks[t].pc = "generator"
    /\ \E o \in TaskOutcomes :
       \E r \in {call_claude(files[OutputFile(t)], generator_prompt(tasks[t].state),
                             tasks[t].state.repo_path,
                             NodeLabel("generator", tasks[t].state.iteration), o)} :
       \E a \in {call_claude(tasks[t].solo.sink, generator_prompt(tasks[t].solo.state),
                             tasks[t].solo.state.repo_path,
                             NodeLabel("generator", tasks[t].solo.state.iteration), o)} :
         /\ files' = [files EXCEPT ![OutputFile(t)] = r.sink]
         /\ tasks' = [tasks EXCEPT ![t] =
                        Run(generator_node(tasks[t].state, r.output), "validator",
                            tasks[t].returned,
                            Alone(generator_node(tasks[t].solo.state, a.output), a.sink))]
    /\ UNCHANGED beside

\* The validator node of task t runs, then the conditional edge.
TaskValidator(t) ==
    /\ tasks[t].pc = "validator"
    /\ \E o \in TaskOutcomes :
       \E r \in {call_claude(files[OutputFile(t)], validator_prompt(tasks[t].state),
                             tasks[t].state.repo_path,
                             NodeLabel("validator", tasks[t].state.iteration), o)} :
       \E a \in {call_claude(tasks[t].solo.sink, validator_prompt(tasks[t].solo.state),
                             tasks[t].solo.state.repo_path,
                             NodeLabel("validator", tasks[t].solo.state.iteration), o)} :
       \E st \in {validator_node(tasks[t].state, r.output)} :
         /\ files' = [files EXCEPT ![OutputFile(t)] = r.sink]
         /\ tasks' = [tasks EXCEPT ![t] =
                        Run(st, should_continue(st), tasks[t].returned,
                            Alone(validator_node(tasks[t].solo.state, a.output), a.sink))]
    /\ UNCHANGED beside

\* The graph of task t reached END: run_review_critique returns the answer.
TaskReturn(t) ==
    /\ tasks[t].pc = "end"
    /\ tasks' = [tasks EXCEPT ![t] =
                   Run(tasks[t].state, "done", tasks[t].state.answer, tasks[t].solo)]
    /\ UNCHANGED <<files, beside>>

TasksNext == \E t \in TaskIds : TaskGenerator(t) \/ TaskValidator(t) \/ TaskReturn(t)

SpecTasks == TasksInit /\ [][TasksNext]_vars

\* C17: runs of tasks with distinct identifiers are independent under every
\* interleaving of their steps: the logs of distinct tasks are distinct
\* files, a step of one task changes no other task's log and no other task's
\* state, and at every point a run's state and log, and in the end the answer
\* it returns, are those of the same run made alone with the same outcomes.
C17_Independent ==
    /\ [](\A t \in TaskIds :
            /\ \A u \in TaskIds \ {t} : OutputFile(u) # OutputFile(t)
            /\ tasks[t].state = tasks[t].solo.state
            /\ files[OutputFile(t)] = tasks[t].solo.sink
            /\ (tasks[t].pc = "done" => tasks[t].returned = tasks[t].solo.state.answer)
            /\ tasks[t].state.task_id = t)
    /\ [][\E t \in TaskIds : \A u \in TaskIds \ {t} :
             /\ tasks'[u] = tasks[u]
             /\ files'[OutputFile(u)] = files[OutputFile(u)]]_vars

\* Both runs returned: one with the answer "Answer", the other with a
\* rejected answer after looping back to its iteration bound on a log of its
\* own that grew longer than the first task's.
C17_Witness ==
    /\ \A t \in TaskIds : tasks[t].pc = "done"
    /\ tasks[TaskId].returned = "Answer"
    /\ tasks["e5f6a7b8"].returned = "INVALID: x"
    /\ tasks["e5f6a7b8"].state.iteration = 3
    /\ Len(files[OutputFile(TaskId)]) > 0
    /\ Len(files[OutputFile("e5f6a7b8")]) > Len(files[OutputFile(TaskId)])

\* The node lines of the headers of a log, in the order they were written:
\* one per invocation that wrote its header.
NodeLines(snk) ==
    LET mark == "[" \o Timestamp \o "] "
        heads == SelectSeq(snk, LAMBDA e : e.src = "header" /\ startswith(e.line, mark))
    IN [i \in 1..Len(heads) |-> SubSeq(heads[i].line, Len(mark) + 1, Len(heads[i].line))]

\* The node line of the n-th invocation of an alternating sequence that
\* starts with GENERATE: the k-th GENERATE is invocation 2k - 1, the VALIDATE
\* that follows it invocation 2k.
Alternating(n) ==
    IF n % 2 = 1 THEN "GENERATOR_V" \o ToString((n + 1) \div 2)
    ELSE "VALIDATOR_V" \o ToString(n \div 2)

\* C21: within one task the invocations alternate GENERATE, VALIDATE,
\* GENERATE, VALIDATE, ..., starting with GENERATE and, in every run that
\* reaches the end of the graph, ending with VALIDATE; every step makes
\* exactly one invocation, which has returned before the next step begins,
\* and a timed-out or failed invocation is followed by the other node's
\* invocation, never by a second attempt; the k-th GENERATE carries the label
\* generator_v{k} and the VALIDATE after it validator_v{k}.  A run cut short
\* by an exception that leaves an invocation makes no further invocation.
C21_Alternation ==
    /\ [](/\ inv.index = gens + vals
          /\ (pc = "generator" => gens = vals)
          /\ (pc = "validator" => gens = vals + 1)
          /\ (pc \in {"end", "done"} => gens = vals /\ gens >= 1)
          /\ (pc = "failed" => gens \in {vals, vals + 1} /\ res.raised)
          /\ (inv.index > 0 =>
                inv.node = (IF gens > vals THEN "generator_v" \o ToString(gens)
                            ELSE "validator_v" \o ToString(vals)))
          /\ NodeLines(sink) = [n \in 1..(gens + vals) |-> Alternating(n)])
    /\ [][/\ inv'.index \in {inv.index, inv.index + 1}
          /\ (inv'.index = inv.index + 1 =>
                /\ pc \in {"generator", "validator"}
                /\ inv.index % 2 = (IF pc = "generator" THEN 0 ELSE 1)
                /\ inv'.node = (IF pc = "generator"
                                THEN "generator_v" \o ToString(gens + 1)
                                ELSE "validator_v" \o ToString(vals + 1))
                /\ <<gens', vals'>> = (IF pc = "generator" THEN <<gens + 1, vals>>
                                       ELSE <<gens, vals + 1>>))
          /\ (inv'.index = inv.index => inv' = inv /\ gens' = gens /\ vals' = vals)
          /\ (pc \in {"end", "done", "failed"} => inv' = inv)]_vars

\* A run of two GENERATE/VALIDATE pairs returned; one of its invocations
\* timed out and the next invocation was the other node's.
C21_Witness ==
    /\ pc = "done" /\ gens = 2 /\ vals = 2
    /\ inv.index = 4 /\ inv.node = "validator_v2"
    /\ NodeLines(sink) = <<"GENERATOR_V1", "VALIDATOR_V1", "GENERATOR_V2",
                           "VALIDATOR_V2">>
    /\ \E i \in 1..Len(sink) :
          sink[i].src = "footer" /\ startswith(sink[i].line, "[TIMEOUT after ")

\* A run cut short by the exception of C16 in its first GENERATE: one
\* invocation, no VALIDATE.
C21_CutShortWitness ==
    /\ pc = "failed" /\ gens = 1 /\ vals = 0 /\ res.raised
    /\ NodeLines(sink) = <<"GENERATOR_V1">>

====
